---------------------------- MODULE Spec2Model ----------------------------
(***************************************************************************)
(* A model of the stream operators and pipeline stages of in-d-gestion:    *)
(*   - splitMerge and readline (the rx.Observable.prototype extensions),    *)
(*   - idify (content-derived ids).                                         *)
(* Each operator has its own specification; the variables of the other     *)
(* operators stay at their initial values under it.                         *)
(***************************************************************************)
EXTENDS Integers, Sequences, FiniteSets, TLC

\* ------------------------------------------------------------------ bounds
\* Number of events the upstream of splitMerge delivers at most.
MaxEvents == 4
\* Length of the merged output of splitMerge at most.
MaxOut == 3
\* Number of chunks the upstream of readline delivers at most.
MaxChunks == 3
\* Length of one chunk at most.
MaxChunkLen == 2
\* Number of calls of idify on one event at most.
MaxIdify == 2
\* Number of events the upstream of tempBasalJoin delivers at most.
MaxJoin == 3
\* Number of elements the input of passThroughStream delivers at most.
MaxWrite == 3

\* ----------------------------------------------------------------- values
\* null / undefined of the program.
Null == "null"

\* The errors a stream can signal: none, the upstream's, a handler's.
NoErr == <<>>
UpstreamErr == <<"upstream">>
HandlerErr(k) == <<"handler", k>>

\* The partition keys the selector can return.
Keys == {"A", "B"}

\* The kinds of handler a caller passes to splitMerge:
\*   identity : function (flow) { return flow; }
\*   empty    : a stream that completes while it is being subscribed
\*   other    : any other stream; it signals on its own schedule
HandlerKinds == {"identity", "empty", "other"}

VARIABLES
  \* splitMerge
  handlersObj,   \* the key -> handler mapping given to splitMerge
  upstream,      \* what the upstream has signalled: active, completed, error
  input,         \* the events the upstream has delivered, in order
  flows,         \* the flow table: key -> state of the flow (a Subject)
  hout,          \* per key, the state of the stream its handler returned
  invoked,       \* per key, how many times the handler was called
  out,           \* the elements the merged output has received
  outState,      \* the merged output: open, completed, error
  outErr,        \* the error the merged output received
  thrown,        \* the key of the exception that escaped the routing callback
  openAtEnd,     \* the keys in the flow table when the upstream completed
  \* readline
  bufferedString, \* the pending partial line
  rlState,       \* the output of readline: unsubscribed, open, completed, error
  rlChunks,      \* the chunks the upstream has delivered, in order
  rlOut,         \* the elements readline has emitted, in order
  \* idify
  ev,            \* the event idify works on (it is changed in place)
  ev0,           \* the event as it was before the first call
  ev1,           \* the event as it was after the first call
  idErr,         \* the exception of the last call of idify
  idCalls,       \* the number of calls of idify on the event
  evB,           \* a second event given to idify
  idErrB,        \* the exception of the call of idify on the second event
  \* tempBasalJoin, alone or followed by idify
  withIdify,     \* whether the output of the joiner is mapped through idify
  tbHeap,        \* the event objects, by reference (a position in tbHeap)
  currTemp,      \* the remembered temp: a reference, 0 for null
  tbSteps,       \* per delivered event, what the joiner did with it
  tbOut,         \* the references the pipeline has emitted, in order
  tbState,       \* the output of the pipeline: open, completed, error
  tbErr,         \* the error the pipeline has signalled
  \* passThroughStream
  ptInput,       \* the input stream: active, completed, error
  ptWriter,      \* the write-side subscription: none, active, ended, disposed
  ptChannel,     \* the read side of the channel: open, ended, error
  ptWritten,     \* number of input elements written into the channel
  ptRead,        \* number of elements the channel has given back
  ptResult,      \* the result stream as its subscriber sees it:
                 \* unsubscribed, open, completed, error, cancelled
  ptOut,         \* number of elements the subscriber has received
  ptLate,        \* number of elements written after the result stream ended
                 \* in an error or was cancelled
  ptAtError,     \* the write-side subscription at the moment an error
                 \* reached the subscriber ("none" before)
  \* readline, subscribed a second time
  rsFirstState,  \* how the first subscription ended: none (it has not been
                 \* followed by a second), completed, error
  rsFirstOut,    \* what the first subscription emitted
  rsStartBuf,    \* bufferedString when the second subscription started
  rsPos          \* number of chunks the upstream has replayed

smVars == <<handlersObj, upstream, input, flows, hout, invoked, out, outState,
            outErr, thrown, openAtEnd>>

rlVars == <<bufferedString, rlState, rlChunks, rlOut>>

idVars == <<ev, ev0, ev1, idErr, idCalls, evB, idErrB>>

tbVars == <<withIdify, tbHeap, currTemp, tbSteps, tbOut, tbState, tbErr>>

ptVars == <<ptInput, ptWriter, ptChannel, ptWritten, ptRead, ptResult, ptOut,
           ptLate, ptAtError>>

rsVars == <<rsFirstState, rsFirstOut, rsStartBuf, rsPos>>

vars == <<smVars, rlVars, idVars, tbVars, ptVars, rsVars>>

\* What the actions of one operator leave alone: the other operators.
notSM == <<rlVars, idVars, tbVars, ptVars, rsVars>>
notRL == <<smVars, idVars, tbVars, ptVars, rsVars>>
notID == <<smVars, rlVars, tbVars, ptVars, rsVars>>
notTB == <<smVars, rlVars, idVars, ptVars, rsVars>>
notPT == <<smVars, rlVars, idVars, tbVars, rsVars>>
notRS == <<smVars, idVars, tbVars, ptVars>>

\* ------------------------------------------------------------ splitMerge
\* The state the callbacks of one splitMerge subscription work on.
SM == [flows |-> flows, hout |-> hout, invoked |-> invoked, out |-> out,
       outState |-> outState, outErr |-> outErr, thrown |-> thrown]

Remove(f, k) == [x \in DOMAIN f \ {k} |-> f[x]]

Put(f, k, v) == [x \in DOMAIN f \cup {k} |-> IF x = k THEN v ELSE f[x]]

\* selector(e)
Selector(e) == e.key

\* The observer rx.Observable.create hands to link's callback: it takes
\* elements until its first error or completion and nothing after it.
ObserverOnNext(s, e) ==
  IF s.outState = "open" THEN [s EXCEPT !.out = Append(@, e)] ELSE s

ObserverOnError(s, err) ==
  IF s.outState = "open"
  THEN [s EXCEPT !.outState = "error", !.outErr = err]
  ELSE s

ObserverOnCompleted(s) ==
  IF s.outState = "open" THEN [s EXCEPT !.outState = "completed"] ELSE s

\* The three callbacks subscribed to the stream a handler returned.
FlowOutOnNext(s, e) == ObserverOnNext(s, e)

FlowOutOnError_Swallow(s, err) == s

FlowOutOnError(s, err) == ObserverOnError(s, err)

FlowOutOnCompleted_NoCheck(s, theKey) ==
  ObserverOnCompleted([s EXCEPT !.flows = Remove(@, theKey)])

FlowOutOnCompleted(s, theKey) ==
  LET s1 == [s EXCEPT !.flows = Remove(@, theKey)]
  IN  IF DOMAIN s1.flows = {} THEN ObserverOnCompleted(s1) ELSE s1

\* The stream handler k returned signals completion (error).
HandlerCompletes(s, k) ==
  FlowOutOnCompleted([s EXCEPT !.hout[k] = "completed"], k)

HandlerFails(s, k) ==
  FlowOutOnError([s EXCEPT !.hout[k] = "error"], HandlerErr(k))

\* flow.onNext(e): the Subject hands e to the handler; an identity handler
\* returned the flow itself, so its subscriber gets e in the same call.
SubjectOnNext(s, k, e) ==
  IF handlersObj[k] = "identity" /\ s.hout[k] = "live" /\ s.flows[k] = "open"
  THEN FlowOutOnNext(s, e)
  ELSE s

\* flows[key].onCompleted()
SubjectOnCompleted(s, k) ==
  LET s1 == [s EXCEPT !.flows[k] = "completed"]
  IN  IF handlersObj[k] = "identity" /\ s.hout[k] = "live"
      THEN HandlerCompletes(s1, k)
      ELSE s1

\* handlers(key, flow).subscribe(...): the mapping form throws on a key it
\* does not hold; otherwise the handler is called and its stream subscribed.
HandlersSubscribe(s, key) ==
  IF key \notin DOMAIN handlersObj
  THEN [s EXCEPT !.thrown = key]
  ELSE LET s1 == [s EXCEPT !.invoked[key] = @ + 1]
       IN  IF handlersObj[key] = "empty"
           THEN HandlerCompletes(s1, key)
           ELSE [s1 EXCEPT !.hout[key] = "live"]

\* The routing callback.
RetValOnNext_PushExisting(s, e) ==
  LET key == Selector(e)
  IN  IF key \in DOMAIN s.flows
      THEN SubjectOnNext(s, key, e)
      ELSE LET s1 == HandlersSubscribe(s, key)
           IN  IF s1.thrown # Null
               THEN s1
               ELSE [s1 EXCEPT !.flows = Put(@, key, "open")]

RetValOnNext(s, e) ==
  LET key == Selector(e)
  IN  IF key \in DOMAIN s.flows
      THEN SubjectOnNext(s, key, e)
      ELSE LET s1 == HandlersSubscribe(s, key)
           IN  IF s1.thrown # Null
               THEN s1
               ELSE SubjectOnNext([s1 EXCEPT !.flows = Put(@, key, "open")],
                                  key, e)

RetValOnError(s) == ObserverOnError(s, UpstreamErr)

\* flowKeys.forEach(function (key) { flows[key].onCompleted(); })
RECURSIVE ForEachOnCompleted(_, _)
ForEachOnCompleted(s, flowKeys) ==
  IF flowKeys = {} THEN s
  ELSE LET key == CHOOSE k \in flowKeys : TRUE
       IN  ForEachOnCompleted(SubjectOnCompleted(s, key), flowKeys \ {key})

RetValOnCompleted(s) ==
  LET flowKeys == DOMAIN s.flows
  IN  IF flowKeys = {} THEN ObserverOnCompleted(s)
      ELSE ForEachOnCompleted(s, flowKeys)

\* The variables take the values of s.
Commit(s) ==
  /\ flows' = s.flows
  /\ hout' = s.hout
  /\ invoked' = s.invoked
  /\ out' = s.out
  /\ outState' = s.outState
  /\ outErr' = s.outErr
  /\ thrown' = s.thrown

\* The upstream subscription is live: the upstream has not terminated, the
\* merged output has not terminated (its termination disposes the upstream
\* subscription) and no exception has unwound the producer.
Delivering == upstream = "active" /\ outState = "open" /\ thrown = Null

\* splitMerge is not in use.
SMIdle ==
  /\ handlersObj = <<>>
  /\ upstream = "active"
  /\ input = <<>>
  /\ flows = <<>>
  /\ hout = [k \in Keys |-> "none"]
  /\ invoked = [k \in Keys |-> 0]
  /\ out = <<>>
  /\ outState = "open"
  /\ outErr = NoErr
  /\ thrown = Null
  /\ openAtEnd = {}

SMInit ==
  /\ \E hs \in SUBSET Keys : handlersObj \in [hs -> HandlerKinds]
  /\ upstream = "active"
  /\ input = <<>>
  /\ flows = <<>>
  /\ hout = [k \in Keys |-> "none"]
  /\ invoked = [k \in Keys |-> 0]
  /\ out = <<>>
  /\ outState = "open"
  /\ outErr = NoErr
  /\ thrown = Null
  /\ openAtEnd = {}

\* The upstream delivers an event with key k.
UpstreamNext ==
  /\ Delivering
  /\ Len(input) < MaxEvents
  /\ \E k \in Keys :
       LET e == [key |-> k, seq |-> Len(input) + 1]
       IN  /\ input' = Append(input, e)
           /\ Commit(RetValOnNext(SM, e))
  /\ UNCHANGED <<handlersObj, upstream, openAtEnd, notSM>>

UpstreamError ==
  /\ Delivering
  /\ upstream' = "error"
  /\ Commit(RetValOnError(SM))
  /\ UNCHANGED <<handlersObj, input, openAtEnd, notSM>>

UpstreamCompleted ==
  /\ Delivering
  /\ upstream' = "completed"
  /\ openAtEnd' = DOMAIN flows
  /\ Commit(RetValOnCompleted(SM))
  /\ UNCHANGED <<handlersObj, input, notSM>>

\* The stream of an "other" handler emits, completes or fails.
HandlerNext ==
  /\ Len(out) < MaxOut
  /\ \E k \in DOMAIN handlersObj :
       /\ handlersObj[k] = "other"
       /\ hout[k] = "live"
       /\ \E i \in 1..Len(input) :
            /\ input[i].key = k
            /\ Commit(FlowOutOnNext(SM, input[i]))
  /\ UNCHANGED <<handlersObj, upstream, input, openAtEnd, notSM>>

HandlerCompleted ==
  /\ \E k \in DOMAIN handlersObj :
       /\ handlersObj[k] = "other"
       /\ hout[k] = "live"
       /\ Commit(HandlerCompletes(SM, k))
  /\ UNCHANGED <<handlersObj, upstream, input, openAtEnd, notSM>>

HandlerError ==
  /\ \E k \in DOMAIN handlersObj :
       /\ handlersObj[k] = "other"
       /\ hout[k] = "live"
       /\ Commit(HandlerFails(SM, k))
  /\ UNCHANGED <<handlersObj, upstream, input, openAtEnd, notSM>>

SMNext ==
  \/ UpstreamNext
  \/ UpstreamError
  \/ UpstreamCompleted
  \/ HandlerNext
  \/ HandlerCompleted
  \/ HandlerError

\* --------------------------------------------------------------- readline
\* Text is a sequence of characters; LF is the line-feed.
LF == "\n"

Alphabet == {"a", LF}

\* The chunks an upstream can deliver.
Chunks == UNION {[1..n -> Alphabet] : n \in 0..MaxChunkLen}

\* str.split('\n'): the pieces of str between line-feeds, at least one.
RECURSIVE Split(_)
Split(str) ==
  IF \E i \in 1..Len(str) : str[i] = LF
  THEN LET i == CHOOSE j \in 1..Len(str) :
                  str[j] = LF /\ \A h \in 1..(j - 1) : str[h] # LF
       IN  <<SubSeq(str, 1, i - 1)>> \o Split(SubSeq(str, i + 1, Len(str)))
  ELSE <<str>>

\* The state the callbacks of readline work on.
RL == [buf |-> bufferedString, out |-> rlOut, state |-> rlState]

\* outputObs.onNext / onError / onCompleted: the observer of link's stream.
OutputObsOnNext(r, e) ==
  IF r.state = "open" THEN [r EXCEPT !.out = Append(@, e)] ELSE r

OutputObsOnError(r) ==
  IF r.state = "open" THEN [r EXCEPT !.state = "error"] ELSE r

OutputObsOnCompleted(r) ==
  IF r.state = "open" THEN [r EXCEPT !.state = "completed"] ELSE r

\* splits[i] + '\n'
WithTerminator_Dropped(split) == split

WithTerminator(split) == Append(split, LF)

\* for (i = 0; i < splits.length - 1; ++i) outputObs.onNext(splits[i] + '\n')
RECURSIVE EmitLines(_, _, _)
EmitLines(r, splits, i) ==
  IF i > Len(splits) - 1 THEN r
  ELSE EmitLines(OutputObsOnNext(r, WithTerminator(splits[i])), splits, i + 1)

\* The three callbacks of the observer readline subscribes to its upstream.
ReadlineOnNext(r, e) ==
  LET appended == r.buf \o e
      splits == Split(appended)
      r1 == EmitLines([r EXCEPT !.buf = appended], splits, 1)
  IN  [r1 EXCEPT !.buf = splits[Len(splits)]]

ReadlineOnError(r) == OutputObsOnError(r)

ReadlineOnCompleted_SkipEmpty(r) ==
  IF r.buf = <<>> THEN OutputObsOnCompleted(r)
  ELSE OutputObsOnCompleted(OutputObsOnNext(r, r.buf))

ReadlineOnCompleted(r) ==
  OutputObsOnCompleted(OutputObsOnNext(r, r.buf))

RLCommit(r) ==
  /\ bufferedString' = r.buf
  /\ rlOut' = r.out
  /\ rlState' = r.state

\* readline() has been called: var bufferedString = ''.
RLIdle ==
  /\ bufferedString = <<>>
  /\ rlState = "unsubscribed"
  /\ rlChunks = <<>>
  /\ rlOut = <<>>

\* The stream readline() returned is subscribed: link subscribes the
\* observer to the upstream.
RlSubscribe ==
  /\ rlState = "unsubscribed"
  /\ rlState' = "open"
  /\ UNCHANGED <<bufferedString, rlChunks, rlOut, notRL>>

RlUpstreamNext ==
  /\ rlState = "open"
  /\ Len(rlChunks) < MaxChunks
  /\ \E e \in Chunks :
       /\ rlChunks' = Append(rlChunks, e)
       /\ RLCommit(ReadlineOnNext(RL, e))
  /\ UNCHANGED notRL

RlUpstreamError ==
  /\ rlState = "open"
  /\ RLCommit(ReadlineOnError(RL))
  /\ UNCHANGED <<rlChunks, notRL>>

RlUpstreamCompleted ==
  /\ rlState = "open"
  /\ RLCommit(ReadlineOnCompleted(RL))
  /\ UNCHANGED <<rlChunks, notRL>>

RLNext ==
  \/ RlSubscribe
  \/ RlUpstreamNext
  \/ RlUpstreamError
  \/ RlUpstreamCompleted

\* ------------------------------------------------------------------ idify
\* An event is a function from the names of the fields it has to their
\* values; a field that is null or undefined is not in its domain.
Fields == {"type", "subType", "deliveryType", "deviceId", "ts", "id"}

Has(e, field) == field \in DOMAIN e

\* The recipes: idifiers = { basal: buildHasher('type', ...), ... }
idifiers_BolusOrder ==
  [basal      |-> <<"type", "deliveryType", "deviceId", "ts">>,
   bolus      |-> <<"type", "deviceId", "subType", "ts">>,
   cbg        |-> <<"type", "deviceId", "ts">>,
   deviceMeta |-> <<"type", "subType", "ts">>,
   smbg       |-> <<"type", "deviceId", "ts">>,
   settings   |-> <<"type", "deviceId", "ts">>,
   wizard     |-> <<"type", "deviceId", "ts">>]

idifiers ==
  [basal      |-> <<"type", "deliveryType", "deviceId", "ts">>,
   bolus      |-> <<"type", "subType", "deviceId", "ts">>,
   cbg        |-> <<"type", "deviceId", "ts">>,
   deviceMeta |-> <<"type", "subType", "ts">>,
   smbg       |-> <<"type", "deviceId", "ts">>,
   settings   |-> <<"type", "deviceId", "ts">>,
   wizard     |-> <<"type", "deviceId", "ts">>]

\* The values the fields of an event take here; ts is a number, the others
\* are strings.
TypeValues == DOMAIN idifiers \cup {"food"}
FullEvents ==
  [type : TypeValues, subType : {"s"}, deliveryType : {"temp"},
   deviceId : {"d1", "d11"}, ts : {1, 11}, id : {"given"}]

Restrict(f, S) == [x \in S |-> f[x]]

Events == {Restrict(f, S) : f \in FullEvents, S \in SUBSET Fields}

\* The exceptions of idify.
NoException == <<>>
UnknownType(e) ==
  <<"Unknown event type for idification", Restrict(e, DOMAIN e \cap {"type", "ts"})>>
NoField(type, field) == <<"Unable to make id, no field", type, field>>

\* String(vals[i]): the decimal digits of a number, a string as it is.
String(field, val) == IF field = "ts" THEN ToString(val) ELSE val

\* base32hex.encodeBuffer(sha1 digest of the bytes given): the digest is
\* kept as a function of the bytes, one id per input.
Sha1Base32Hex(bytes) == "sha1(" \o bytes \o ")"

\* hashVals(vals): the string forms of the values are fed to the digest one
\* after another.
RECURSIVE Updates(_, _, _)
Updates(fields, vals, i) ==
  IF i > Len(vals) THEN ""
  ELSE String(fields[i], vals[i]) \o Updates(fields, vals, i + 1)

HashVals(fields, vals) == Sha1Base32Hex(Updates(fields, vals, 1))

\* buildHasher(fields)(e): [val |-> the id] or [exc |-> the exception of the
\* first getter whose field is null].
BuildHasher_SkipMissing(fields, e) ==
  LET present == SelectSeq(fields, LAMBDA f : Has(e, f))
  IN  [exc |-> NoException,
       val |-> HashVals(present, [i \in 1..Len(present) |-> e[present[i]]])]

BuildHasher(fields, e) ==
  LET missing == {i \in 1..Len(fields) : ~Has(e, fields[i])}
  IN  IF missing # {}
      THEN LET i == CHOOSE j \in missing : \A h \in missing : j <= h
           IN  [exc |-> NoField(e["type"], fields[i])]
      ELSE [exc |-> NoException,
            val |-> HashVals(fields, [i \in 1..Len(fields) |-> e[fields[i]]])]

\* idifiers[e.type] != null
HasIdifier(e) == Has(e, "type") /\ e["type"] \in DOMAIN idifiers

\* module.exports = function (e): [e |-> the event afterwards, exc |-> the
\* exception thrown].
Idify_Always(e) ==
  IF ~HasIdifier(e)
  THEN [e |-> e, exc |-> UnknownType(e)]
  ELSE LET r == BuildHasher(idifiers[e["type"]], e)
       IN  IF r.exc # NoException THEN [e |-> e, exc |-> r.exc]
           ELSE [e |-> Put(e, "id", r.val), exc |-> NoException]

Idify(e) ==
  IF ~Has(e, "id")
  THEN IF ~HasIdifier(e)
       THEN [e |-> e, exc |-> UnknownType(e)]
       ELSE LET r == BuildHasher(idifiers[e["type"]], e)
            IN  IF r.exc # NoException THEN [e |-> e, exc |-> r.exc]
                ELSE [e |-> Put(e, "id", r.val), exc |-> NoException]
  ELSE [e |-> e, exc |-> NoException]

\* idify is not in use.
IDIdle ==
  /\ ev = <<>>
  /\ ev0 = <<>>
  /\ ev1 = <<>>
  /\ idErr = NoException
  /\ idCalls = 0
  /\ evB = <<>>
  /\ idErrB = NoException

IDInit ==
  /\ ev \in Events
  /\ ev0 = ev
  /\ ev1 = ev
  /\ idErr = NoException
  /\ idCalls = 0
  /\ evB = <<>>
  /\ idErrB = NoException

\* idify(ev)
IdifyCall ==
  /\ idCalls < MaxIdify
  /\ LET r == Idify(ev)
     IN  /\ ev' = r.e
         /\ idErr' = r.exc
         /\ ev1' = IF idCalls = 0 THEN r.e ELSE ev1
  /\ idCalls' = idCalls + 1
  /\ UNCHANGED <<ev0, evB, idErrB, notID>>

IDNext == IdifyCall

\* Two events of one type, neither with an id.
IDPairInit ==
  /\ ev \in Events
  /\ evB \in Events
  /\ ~Has(ev, "id") /\ ~Has(evB, "id")
  /\ HasIdifier(ev) /\ HasIdifier(evB)
  /\ ev["type"] = evB["type"]
  /\ ev0 = ev
  /\ ev1 = ev
  /\ idErr = NoException
  /\ idCalls = 0
  /\ idErrB = NoException

\* idify(evB)
IdifyCallB ==
  /\ ~Has(evB, "id")
  /\ idErrB = NoException
  /\ LET r == Idify(evB)
     IN  /\ evB' = r.e
         /\ idErrB' = r.exc
  /\ UNCHANGED <<ev, ev0, ev1, idErr, idCalls, notID>>

IDPairNext ==
  \/ IdifyCall
  \/ IdifyCallB

\* ---------------------------------------------------------- tempBasalJoin
\* The events the upstream delivers as its n-th: a temp basal with duration
\* 30 or 0, a scheduled basal with duration 30 or 0, or a cbg; with or
\* without deviceTime and source; with or without an id of its own.
JoinKinds ==
  {[type |-> "basal", deliveryType |-> "temp", duration |-> 30],
   [type |-> "basal", deliveryType |-> "temp", duration |-> 0],
   [type |-> "basal", deliveryType |-> "scheduled", duration |-> 30],
   [type |-> "basal", deliveryType |-> "scheduled", duration |-> 0],
   [type |-> "cbg"]}

Merge(f, g) == [x \in DOMAIN f \cup DOMAIN g |-> IF x \in DOMAIN g THEN g[x] ELSE f[x]]

JoinEvents(n) ==
  {Merge(Merge(Merge(k, [deviceId |-> "d1", ts |-> 100 * n]), d), i) :
     k \in JoinKinds,
     d \in {<<>>, [deviceTime |-> ToString(n) \o ":00", source |-> "carelink"]},
     i \in {<<>>, [id |-> "id" \o ToString(n)]}}

\* e.type === 'basal' && e.deliveryType === 'temp'
IsTempBasal_AnyBasal(e) == Has(e, "type") /\ e["type"] = "basal"

IsTempBasal(e) ==
  /\ Has(e, "type") /\ e["type"] = "basal"
  /\ Has(e, "deliveryType") /\ e["deliveryType"] = "temp"

\* e.duration === 0
IsZeroDuration(e) == Has(e, "duration") /\ e["duration"] = 0

\* _.pick(e, 'type', 'deviceTime', 'deviceId', 'source')
Pick(e) == Restrict(e, DOMAIN e \cap {"type", "deviceTime", "deviceId", "source"})

\* _.assign(_.pick(e, ...), {deliveryType: 'temp-stop', tempId: theTemp.id})
TempStop_NoPick(e, theTemp) ==
  Merge(e, Merge([deliveryType |-> "temp-stop"],
                 IF Has(theTemp, "id") THEN [tempId |-> theTemp["id"]] ELSE <<>>))

TempStop(e, theTemp) ==
  Merge(Pick(e), Merge([deliveryType |-> "temp-stop"],
                       IF Has(theTemp, "id") THEN [tempId |-> theTemp["id"]] ELSE <<>>))

\* The function tempBasalJoin gives to keep, on the event at reference i:
\* [cur |-> currTemp afterwards, heap |-> the objects afterwards,
\*  res |-> the reference returned, 0 for null].
TempBasalJoin_KeepsTemp(cur, heap, i) ==
  LET e == heap[i]
  IN  IF IsTempBasal(e)
      THEN IF IsZeroDuration(e)
           THEN IF cur = 0
                THEN [cur |-> cur, heap |-> heap, res |-> 0]
                ELSE [cur |-> cur,
                      heap |-> Append(heap, TempStop(e, heap[cur])),
                      res |-> Len(heap) + 1]
           ELSE [cur |-> i, heap |-> heap, res |-> i]
      ELSE [cur |-> cur, heap |-> heap, res |-> i]

TempBasalJoin(cur, heap, i) ==
  LET e == heap[i]
  IN  IF IsTempBasal(e)
      THEN IF IsZeroDuration(e)
           THEN IF cur = 0
                THEN [cur |-> cur, heap |-> heap, res |-> 0]
                ELSE [cur |-> 0,
                      heap |-> Append(heap, TempStop(e, heap[cur])),
                      res |-> Len(heap) + 1]
           ELSE [cur |-> i, heap |-> heap, res |-> i]
      ELSE [cur |-> cur, heap |-> heap, res |-> i]

\* keep: .filter(function (e) { return e !== null; })
Keep(res) == res # 0

\* tempBasalJoin is not in use.
TBIdle ==
  /\ withIdify = FALSE
  /\ tbHeap = <<>>
  /\ currTemp = 0
  /\ tbSteps = <<>>
  /\ tbOut = <<>>
  /\ tbState = "open"
  /\ tbErr = NoException

\* tempBasalJoin(observable) has been called (var currTemp = null) and its
\* result, mapped through idify or not, is subscribed.
TBInit ==
  /\ withIdify \in BOOLEAN
  /\ tbHeap = <<>>
  /\ currTemp = 0
  /\ tbSteps = <<>>
  /\ tbOut = <<>>
  /\ tbState = "open"
  /\ tbErr = NoException

\* The upstream delivers an event: the joiner's function, the filter of
\* keep, then idify on the object that passed (map signals the exception of
\* its function as the error of the stream).
TbUpstreamNext ==
  /\ tbState = "open"
  /\ Len(tbSteps) < MaxJoin
  /\ \E e \in JoinEvents(Len(tbSteps) + 1) :
       LET i == Len(tbHeap) + 1
           r == TempBasalJoin(currTemp, Append(tbHeap, e), i)
           step == [e |-> e, idx |-> i, cur |-> currTemp,
                    curVal |-> IF currTemp = 0 THEN <<>> ELSE tbHeap[currTemp],
                    res |-> r.res,
                    resVal |-> IF r.res = 0 THEN <<>> ELSE r.heap[r.res],
                    after |-> r.cur,
                    afterVal |-> IF r.cur = 0 THEN <<>> ELSE r.heap[r.cur]]
           ided == IF Keep(r.res) /\ withIdify
                   THEN Idify(r.heap[r.res])
                   ELSE [e |-> <<>>, exc |-> NoException]
       IN  /\ currTemp' = r.cur
           /\ tbSteps' = Append(tbSteps, step)
           /\ IF ~Keep(r.res)
              THEN /\ tbHeap' = r.heap
                   /\ UNCHANGED <<tbOut, tbState, tbErr>>
              ELSE IF ~withIdify
              THEN /\ tbHeap' = r.heap
                   /\ tbOut' = Append(tbOut, r.res)
                   /\ UNCHANGED <<tbState, tbErr>>
              ELSE IF ided.exc # NoException
              THEN /\ tbHeap' = r.heap
                   /\ tbState' = "error"
                   /\ tbErr' = ided.exc
                   /\ UNCHANGED tbOut
              ELSE /\ tbHeap' = [r.heap EXCEPT ![r.res] = ided.e]
                   /\ tbOut' = Append(tbOut, r.res)
                   /\ UNCHANGED <<tbState, tbErr>>
  /\ UNCHANGED <<withIdify, notTB>>

TbUpstreamCompleted ==
  /\ tbState = "open"
  /\ tbState' = "completed"
  /\ UNCHANGED <<withIdify, tbHeap, currTemp, tbSteps, tbOut, tbErr, notTB>>

TBNext ==
  \/ TbUpstreamNext
  \/ TbUpstreamCompleted

\* ------------------------------------------------------ passThroughStream
\* The state of one subscription of the result of passThroughStream(stream):
\* PT is a record of the nine pt variables.
PT == [input |-> ptInput, writer |-> ptWriter, channel |-> ptChannel,
       written |-> ptWritten, read |-> ptRead, result |-> ptResult,
       out |-> ptOut, late |-> ptLate, atError |-> ptAtError]

\* writer.dispose(): a subscription that is live is disposed; one that has
\* ended with its source stays as it is.
WriterDispose(w) == IF w = "active" THEN "disposed" ELSE w

\* currOutputErr(err): onError of the observer of rx.Observable.create,
\* which forwards only while the subscriber has neither had a terminal
\* signal nor disposed.
CurrOutputErr(s) ==
  IF s.result = "open"
  THEN [s EXCEPT !.result = "error", !.atError = s.writer]
  ELSE s

\* observer.onError = function (err) { writer.dispose(); currOutputErr(err); }
PatchedOnError(s) == CurrOutputErr([s EXCEPT !.writer = WriterDispose(s.writer)])

\* The function given to rx.Observable.create returns nothing: disposing the
\* result stream stops the observer and disposes no subscription.
SubscriberDispose(s) ==
  IF s.result = "open" THEN [s EXCEPT !.result = "cancelled"] ELSE s

\* observer.onNext and observer.onCompleted of the observer of
\* rx.Observable.create.
PtObserverOnNext(s) == IF s.result = "open" THEN [s EXCEPT !.out = s.out + 1] ELSE s
PtObserverOnCompleted(s) == IF s.result = "open" THEN [s EXCEPT !.result = "completed"] ELSE s

PTCommit(s) ==
  /\ ptInput' = s.input
  /\ ptWriter' = s.writer
  /\ ptChannel' = s.channel
  /\ ptWritten' = s.written
  /\ ptRead' = s.read
  /\ ptResult' = s.result
  /\ ptOut' = s.out
  /\ ptLate' = s.late
  /\ ptAtError' = s.atError
  /\ UNCHANGED notPT

\* passThroughStream(stream) has been called; its result is not subscribed.
PTIdle ==
  /\ ptInput = "active"
  /\ ptWriter = "none"
  /\ ptChannel = "open"
  /\ ptWritten = 0
  /\ ptRead = 0
  /\ ptResult = "unsubscribed"
  /\ ptOut = 0
  /\ ptLate = 0
  /\ ptAtError = "none"

\* The result is subscribed: writeToStream subscribes the input, onError of
\* the observer is replaced, fromStream(stream) is subscribed.
PtSubscribe ==
  /\ ptResult = "unsubscribed"
  /\ PTCommit([PT EXCEPT !.writer = "active", !.result = "open"])

\* The input delivers an element: writeToStream writes it into the channel.
PtInputNext ==
  /\ ptWriter = "active"
  /\ ptInput = "active"
  /\ ptWritten < MaxWrite
  /\ PTCommit([PT EXCEPT !.written = ptWritten + 1,
                         !.late = IF ptResult \in {"error", "cancelled"}
                                  THEN ptLate + 1 ELSE ptLate])

\* The input completes: writeToStream ends the channel's write side.
PtInputCompleted ==
  /\ ptWriter = "active"
  /\ ptInput = "active"
  /\ PTCommit([PT EXCEPT !.input = "completed", !.writer = "ended"])

\* The input fails: writeToStream emits 'error' on the channel, which
\* fromStream hands to observer.onError while it listens.
PtInputError ==
  /\ ptWriter = "active"
  /\ ptInput = "active"
  /\ LET s == [PT EXCEPT !.input = "error", !.writer = "ended"]
     IN  IF ptChannel = "open"
         THEN PTCommit(PatchedOnError([s EXCEPT !.channel = "error"]))
         ELSE PTCommit(s)

\* The channel gives back an element it was given: fromStream's observer.onNext.
PtChannelData ==
  /\ ptResult # "unsubscribed"
  /\ ptChannel = "open"
  /\ ptRead < ptWritten
  /\ PTCommit(PtObserverOnNext([PT EXCEPT !.read = ptRead + 1]))

\* The read side of the channel ends, once the write side was ended and
\* everything written was given back: observer.onCompleted.
PtChannelEnd ==
  /\ ptResult # "unsubscribed"
  /\ ptChannel = "open"
  /\ ptInput = "completed"
  /\ ptRead = ptWritten
  /\ PTCommit(PtObserverOnCompleted([PT EXCEPT !.channel = "ended"]))

\* The channel itself fails: fromStream's observer.onError.
PtChannelError ==
  /\ ptResult # "unsubscribed"
  /\ ptChannel = "open"
  /\ PTCommit(PatchedOnError([PT EXCEPT !.channel = "error"]))

\* The subscriber disposes the result stream.
PtCancel ==
  /\ ptResult = "open"
  /\ PTCommit(SubscriberDispose(PT))

PTNext ==
  \/ PtSubscribe
  \/ PtInputNext
  \/ PtInputCompleted
  \/ PtInputError
  \/ PtChannelData
  \/ PtChannelEnd
  \/ PtChannelError
  \/ PtCancel

\* ------------------------------------------- readline, subscribed twice
\* The stream readline() returned has had one subscription at most.
RSIdle ==
  /\ rsFirstState = "none"
  /\ rsFirstOut = <<>>
  /\ rsStartBuf = <<>>
  /\ rsPos = 0

\* The first subscription: the steps of readline, while no second
\* subscription was made.
RsSubscribe == rsFirstState = "none" /\ RlSubscribe

RsUpstreamNext == rsFirstState = "none" /\ RlUpstreamNext

RsUpstreamError == rsFirstState = "none" /\ RlUpstreamError

RsUpstreamCompleted == rsFirstState = "none" /\ RlUpstreamCompleted

\* The same stream is subscribed again after the first subscription ended:
\* link's function runs again, with a new outputObs and a new observer on
\* the upstream; bufferedString is the variable of the call of readline().
RsResubscribe ==
  /\ rsFirstState = "none"
  /\ rlState \in {"completed", "error"}
  /\ rsFirstState' = rlState
  /\ rsFirstOut' = rlOut
  /\ rsStartBuf' = bufferedString
  /\ rsPos' = 0
  /\ rlState' = "open"
  /\ rlOut' = <<>>
  /\ UNCHANGED <<bufferedString, rlChunks, notRS>>

\* The upstream, cold, delivers to the second subscription the chunks it
\* delivered to the first, then the same terminal signal.
RsReplayNext ==
  /\ rsFirstState # "none"
  /\ rlState = "open"
  /\ rsPos < Len(rlChunks)
  /\ RLCommit(ReadlineOnNext(RL, rlChunks[rsPos + 1]))
  /\ rsPos' = rsPos + 1
  /\ UNCHANGED <<rlChunks, rsFirstState, rsFirstOut, rsStartBuf, notRS>>

RsReplayError ==
  /\ rsFirstState = "error"
  /\ rlState = "open"
  /\ rsPos = Len(rlChunks)
  /\ RLCommit(ReadlineOnError(RL))
  /\ UNCHANGED <<rlChunks, rsVars, notRS>>

RsReplayCompleted ==
  /\ rsFirstState = "completed"
  /\ rlState = "open"
  /\ rsPos = Len(rlChunks)
  /\ RLCommit(ReadlineOnCompleted(RL))
  /\ UNCHANGED <<rlChunks, rsVars, notRS>>

RSNext ==
  \/ RsSubscribe
  \/ RsUpstreamNext
  \/ RsUpstreamError
  \/ RsUpstreamCompleted
  \/ RsResubscribe
  \/ RsReplayNext
  \/ RsReplayError
  \/ RsReplayCompleted

\* ---------------------------------------------------------- specifications
\* splitMerge: one subscription, any handlers, any upstream.
Init == SMInit /\ RLIdle /\ IDIdle /\ TBIdle /\ PTIdle /\ RSIdle

Spec == Init /\ [][SMNext]_vars

\* readline: one subscription of the stream a call of readline() returned.
InitReadline == RLIdle /\ SMIdle /\ IDIdle /\ TBIdle /\ PTIdle /\ RSIdle

SpecReadline == InitReadline /\ [][RLNext]_vars

\* idify: an event, and calls of idify on it.
InitIdify == IDInit /\ SMIdle /\ RLIdle /\ TBIdle /\ PTIdle /\ RSIdle

SpecIdify == InitIdify /\ [][IDNext]_vars

\* idify: two events of one type, each given to idify.
InitIdifyPair == IDPairInit /\ SMIdle /\ RLIdle /\ TBIdle /\ PTIdle /\ RSIdle

\* tempBasalJoin: one subscription, alone or followed by idify.
InitJoin == TBInit /\ SMIdle /\ RLIdle /\ IDIdle /\ PTIdle /\ RSIdle

SpecJoin == InitJoin /\ [][TBNext]_vars

\* passThroughStream: one subscription of its result.
InitPassThrough == PTIdle /\ SMIdle /\ RLIdle /\ IDIdle /\ TBIdle /\ RSIdle

SpecPassThrough == InitPassThrough /\ [][PTNext]_vars

\* readline: one call of readline(), its result subscribed twice.
InitResubscribe == RLIdle /\ RSIdle /\ SMIdle /\ IDIdle /\ TBIdle /\ PTIdle

SpecResubscribe == InitResubscribe /\ [][RSNext]_vars

SpecIdifyPair == InitIdifyPair /\ [][IDPairNext]_vars

\* ------------------------------------------------- splitMerge: the claims
\* The elements of sequence q whose key is k, in order.
OfKey(q, k) == SelectSeq(q, LAMBDA e : e.key = k)

AllIdentity ==
  /\ DOMAIN handlersObj = Keys
  /\ \A k \in Keys : handlersObj[k] = "identity"

\* C1: once the upstream has completed with flows open, the merged output is
\* completed only when the stream of the handler of every flow that was open
\* at that moment has completed.
C1_CompletedOnlyAfterOpenFlows ==
  (upstream = "completed" /\ outState = "completed")
    => \A k \in openAtEnd : hout[k] = "completed"

\* C1 witness: the upstream completed with both flows open, one of them on a
\* handler that completes later, and the merged output has completed.
C1_Witness ==
  /\ upstream = "completed"
  /\ outState = "completed"
  /\ openAtEnd = Keys
  /\ \E k \in Keys : handlersObj[k] = "other"

\* C2 (as claimed): the merged output is never completed before the upstream
\* has completed.
C2_NoCompletionBeforeUpstream ==
  outState = "completed" => upstream = "completed"

\* C3 (as claimed): the handler is called at most once for each key.
C3_HandlerOncePerKey ==
  \A k \in Keys : invoked[k] <= 1

\* C4: as soon as the stream of some handler has signalled an error, the
\* merged output is terminated by an error, whatever flows are still open;
\* it is not (and, being terminated, will not be) completed.
C4_HandlerErrorForwarded ==
  \A k \in Keys :
    hout[k] = "error"
      => /\ outState = "error"
         /\ \/ outErr = UpstreamErr
            \/ \E j \in Keys : outErr = HandlerErr(j) /\ hout[j] = "error"

\* C4 witness: the error of one handler has reached the merged output while
\* the flow of the other key is open and its handler's stream is live.
C4_Witness ==
  \E k, j \in Keys :
    /\ k # j
    /\ hout[k] = "error"
    /\ outErr = HandlerErr(k)
    /\ j \in DOMAIN flows
    /\ hout[j] = "live"

\* C5 (as claimed): an event whose key the mapping does not hold terminates
\* the merged output with an error; no flow is added for the key and no
\* handler gets the event.
C5_UnknownKeyErrorsOutput ==
  thrown # Null
    => /\ outState = "error"
       /\ thrown \notin DOMAIN flows
       /\ hout[thrown] = "none"

\* C6 (as claimed): once an upstream error has been forwarded, the flow table
\* is empty and no flow is open.
C6_FlowsReleasedOnUpstreamError ==
  upstream = "error" => DOMAIN flows = {}

\* C7: with identity handlers, for every key the merged output holds exactly
\* the delivered events of that key, in their order.
C7_IdentityPreservesPerKey ==
  AllIdentity => \A k \in Keys : OfKey(out, k) = OfKey(input, k)

\* C7 witness: identity handlers, keys A, A, B, A delivered, the run is over.
C7_Witness ==
  /\ AllIdentity
  /\ Len(input) = 4
  /\ [i \in 1..4 |-> input[i].key] = <<"A", "A", "B", "A">>
  /\ outState = "completed"

\* --------------------------------------------------- readline: the claims
\* The concatenation of the elements of a sequence of texts.
RECURSIVE Flatten(_)
Flatten(q) == IF q = <<>> THEN <<>> ELSE Head(q) \o Flatten(Tail(q))

\* The number of line-feeds of a text.
NumLF(str) == Cardinality({i \in 1..Len(str) : str[i] = LF})

\* The text is a concatenation of lines each ended by a line-feed.
IsLinesText(str) == str = <<>> \/ str[Len(str)] = LF

\* x is one line with its line-feed: the line-feed is its last character
\* and its only one.
IsLine(x) ==
  /\ Len(x) >= 1
  /\ x[Len(x)] = LF
  /\ \A i \in 1..(Len(x) - 1) : x[i] # LF

\* What follows the last line-feed of a text.
AfterLastLF(str) ==
  LET lfs == {i \in 1..Len(str) : str[i] = LF}
      last == IF lfs = {} THEN 0 ELSE CHOOSE i \in lfs : \A j \in lfs : j <= i
  IN  SubSeq(str, last + 1, Len(str))

\* C8 (as claimed): for a text of N lines each ended by a line-feed, in any
\* chunking, readline has emitted exactly the N lines when it completes.
C8_ExactlyNLines ==
  (rlState = "completed" /\ IsLinesText(Flatten(rlChunks)))
    => /\ Len(rlOut) = NumLF(Flatten(rlChunks))
       /\ \A i \in 1..Len(rlOut) : IsLine(rlOut[i])
       /\ Flatten(rlOut) = Flatten(rlChunks)

\* C8 (amended): for a text of N lines each ended by a line-feed, in any
\* chunking, readline has emitted N + 1 elements when it completes: the N
\* lines, each with its line-feed, and then one empty string.
C8_NLinesThenEmpty ==
  (rlState = "completed" /\ IsLinesText(Flatten(rlChunks)))
    => LET n == NumLF(Flatten(rlChunks))
       IN  /\ Len(rlOut) = n + 1
           /\ \A i \in 1..n : IsLine(rlOut[i])
           /\ rlOut[n + 1] = <<>>
           /\ Flatten(rlOut) = Flatten(rlChunks)

\* C8 witness: two lines delivered in three chunks that cut through a line,
\* and readline has completed.
C8_Witness ==
  /\ rlState = "completed"
  /\ rlChunks = <<<<"a">>, <<LF, "a">>, <<"a", LF>>>>

\* C9: when readline completes, the last element it emitted is the pending
\* buffer (what followed the last line-feed of the input, empty or not), it is
\* the only element emitted beyond the complete lines, and the emitted
\* elements concatenate to the input.
C9_FinalBufferEmitted ==
  rlState = "completed"
    => /\ Len(rlOut) = NumLF(Flatten(rlChunks)) + 1
       /\ rlOut[Len(rlOut)] = AfterLastLF(Flatten(rlChunks))
       /\ rlOut[Len(rlOut)] = bufferedString
       /\ Flatten(rlOut) = Flatten(rlChunks)

\* C9 witness: readline has completed on an empty pending buffer after some
\* input, and the empty string is the last element.
C9_Witness ==
  /\ rlState = "completed"
  /\ Len(rlChunks) >= 2
  /\ AfterLastLF(Flatten(rlChunks)) = <<>>
  /\ rlOut[Len(rlOut)] = <<>>

\* ------------------------------------------------------ idify: the claims
\* C10: idify is idempotent. An event that has an id comes back from idify
\* as it was, id and every other field; and after a first call that gave an
\* id to an event of a known type with all its recipe fields, a second call
\* leaves that id (and the event) as the first call made it.
C10_IdifyIdempotent ==
  /\ (idCalls >= 1 /\ Has(ev0, "id")) => (ev = ev0 /\ idErr = NoException)
  /\ (idCalls >= 2 /\ Has(ev1, "id")) => (ev = ev1 /\ idErr = NoException)

\* C10 witness: idify gave an id to an event of a known type that had none,
\* and was called on it a second time.
C10_Witness ==
  /\ idCalls = 2
  /\ ~Has(ev0, "id")
  /\ Has(ev, "id")
  /\ idErr = NoException

\* C11 (as claimed): the recipes. An event without id whose type is in the
\* table and that has the fields of its recipe gets, as id, the digest of the
\* string forms of exactly those fields in that order; no other field is
\* needed or read.
C11_ClaimedRecipes ==
  [basal      |-> <<"type", "deliveryType", "deviceId", "ts">>,
   bolus      |-> <<"type", "subType", "deviceId", "ts">>,
   cbg        |-> <<"type", "deviceId", "ts">>,
   smbg       |-> <<"type", "deviceId", "ts">>,
   settings   |-> <<"type", "deviceId", "ts">>,
   deviceMeta |-> <<"type", "subType", "ts">>,
   wizard     |-> <<"type", "subType", "ts">>]

\* The recipes with wizard as the code has it.
C11_AmendedRecipes ==
  [C11_ClaimedRecipes EXCEPT !["wizard"] = <<"type", "deviceId", "ts">>]

\* The text the digest is taken of: the fields of the recipe, ts in decimal.
RECURSIVE RecipeText(_, _)
RecipeText(e, recipe) ==
  IF recipe = <<>> THEN ""
  ELSE (IF Head(recipe) = "ts" THEN ToString(e["ts"]) ELSE e[Head(recipe)])
         \o RecipeText(e, Tail(recipe))

\* idify has been called on an event that had no id, a type of the table
\* and every field of recipes[type]: it has the id of that recipe.
FollowsRecipes(recipes) ==
  (/\ idCalls >= 1
   /\ ~Has(ev0, "id")
   /\ Has(ev0, "type")
   /\ ev0["type"] \in DOMAIN recipes
   /\ \A i \in 1..Len(recipes[ev0["type"]]) :
        Has(ev0, recipes[ev0["type"]][i]))
    => /\ idErr = NoException
       /\ ev = Put(ev0, "id",
                   "sha1(" \o RecipeText(ev0, recipes[ev0["type"]]) \o ")")

C11_IdFromClaimedRecipe == FollowsRecipes(C11_ClaimedRecipes)

\* C11 (amended): as claimed, but wizard goes with cbg, smbg and settings:
\* (type, deviceId, ts).
C11_IdFromRecipe == FollowsRecipes(C11_AmendedRecipes)

\* C11 witness: a bolus event with a field outside its recipe (deliveryType)
\* has the id of its four recipe fields.
C11_Witness ==
  /\ idCalls >= 1
  /\ ~Has(ev0, "id")
  /\ Has(ev0, "deliveryType")
  /\ Has(ev, "id")
  /\ ev["id"] = "sha1(bolussd1111)"

\* C12: idify on an event without id fails with the unknown-type error when
\* the type has no recipe, and with the missing-field error naming a missing
\* field (the first of the recipe) when the type is known and a recipe field
\* is null or absent; in both cases the event is as it was, without id.
C12_ErrorsLeaveNoId ==
  (idCalls >= 1 /\ ~Has(ev0, "id"))
    => /\ ~HasIdifier(ev0) => (idErr = UnknownType(ev0) /\ ev = ev0)
       /\ HasIdifier(ev0) =>
            LET recipe == C11_AmendedRecipes[ev0["type"]]
                missing == {i \in 1..Len(recipe) : ~Has(ev0, recipe[i])}
            IN  missing # {} =>
                  /\ \E i \in missing :
                       /\ idErr = NoField(ev0["type"], recipe[i])
                       /\ \A j \in missing : i <= j
                  /\ ev = ev0
       /\ idErr # NoException => ~Has(ev, "id")

\* C12 witness: both errors happen: here the missing-field one, on a bolus
\* event that has its deviceId and ts but no subType.
C12_Witness ==
  /\ idCalls >= 1
  /\ idErr = NoField("bolus", "subType")
  /\ Has(ev0, "deviceId") /\ Has(ev0, "ts")
  /\ ~Has(ev, "id")

\* The values of the recipe fields of e, in recipe order.
RecipeTuple(e) ==
  [i \in 1..Len(idifiers[e["type"]]) |-> e[idifiers[e["type"]][i]]]

\* C13 (as claimed): two events of one type that idify gave ids to have the
\* same id exactly when their recipe fields have the same values.
C13_IdsDifferWhenFieldsDiffer ==
  (/\ Has(ev, "id") /\ Has(evB, "id")
   /\ ~Has(ev0, "id")
   /\ idErr = NoException /\ idErrB = NoException)
    => (ev["id"] = evB["id"] <=> RecipeTuple(ev) = RecipeTuple(evB))


\* ---------------------------------------------------------- tempBasalJoin
\* The classes of input events the claims speak of.
TempDelivery(e) ==
  /\ "type" \in DOMAIN e /\ e["type"] = "basal"
  /\ "deliveryType" \in DOMAIN e /\ e["deliveryType"] = "temp"

ZeroTemp(e) == TempDelivery(e) /\ "duration" \in DOMAIN e /\ e["duration"] = 0

StartTemp(e) == TempDelivery(e) /\ ~ZeroTemp(e)

StopFields == {"type", "deviceTime", "deviceId", "source"}

\* The references the joiner has emitted (what passed keep), in order.
RECURSIVE JoinOut(_)
JoinOut(n) ==
  IF n = 0 THEN <<>>
  ELSE IF tbSteps[n].res = 0 THEN JoinOut(n - 1)
       ELSE Append(JoinOut(n - 1), tbSteps[n].res)

\* C14: in state active, a temp basal of duration 0 makes the joiner emit
\* exactly one event, a new one that carries only the incoming event's type,
\* deviceTime, deviceId and source, deliveryType 'temp-stop' and the id of
\* the remembered temp as tempId; the incoming event is not emitted and the
\* state becomes idle.
C14_ActiveStopSynthesized ==
  /\ ~withIdify => tbOut = JoinOut(Len(tbSteps))
  /\ \A j \in 1..Len(tbSteps) :
       LET s == tbSteps[j]
       IN  (ZeroTemp(s.e) /\ s.cur # 0) =>
             /\ s.res # 0
             /\ \A h \in 1..Len(tbSteps) : s.res # tbSteps[h].idx
             /\ DOMAIN s.resVal =
                  (DOMAIN s.e \cap StopFields) \cup {"deliveryType"}
                    \cup (IF "id" \in DOMAIN s.curVal THEN {"tempId"} ELSE {})
             /\ \A f \in DOMAIN s.e \cap StopFields : s.resVal[f] = s.e[f]
             /\ s.resVal["deliveryType"] = "temp-stop"
             /\ "id" \in DOMAIN s.curVal => s.resVal["tempId"] = s.curVal["id"]
             /\ s.after = 0

C14_Witness ==
  \E j \in 1..Len(tbSteps) :
    /\ ZeroTemp(tbSteps[j].e)
    /\ tbSteps[j].cur # 0
    /\ "deviceTime" \in DOMAIN tbSteps[j].e
    /\ "tempId" \in DOMAIN tbSteps[j].resVal
    /\ ~withIdify
    /\ tbOut # <<>> /\ tbOut[Len(tbOut)] = tbSteps[j].res

\* C15: in state idle, a temp basal of duration 0 is dropped without an
\* error and the state stays idle; an event that is not a temp basal is
\* emitted unchanged in either state and leaves the state and the
\* remembered temp as they were.
C15_IdleStopDroppedOthersPass ==
  \A j \in 1..Len(tbSteps) :
    LET s == tbSteps[j]
    IN  /\ (ZeroTemp(s.e) /\ s.cur = 0) =>
             /\ s.res = 0
             /\ s.after = 0
             /\ (j = Len(tbSteps) => tbState # "error")
        /\ ~TempDelivery(s.e) =>
             /\ s.res = s.idx
             /\ s.resVal = s.e
             /\ s.after = s.cur
             /\ s.afterVal = s.curVal

C15_Witness ==
  /\ \E j \in 1..Len(tbSteps) :
       /\ ZeroTemp(tbSteps[j].e) /\ tbSteps[j].cur = 0
       /\ Len(JoinOut(j)) = Len(JoinOut(j - 1))
  /\ \E j \in 1..Len(tbSteps) :
       /\ ~TempDelivery(tbSteps[j].e) /\ tbSteps[j].cur # 0
       /\ tbSteps[j].e["type"] = "basal"
       /\ tbSteps[j].e["duration"] = 0
       /\ tbSteps[j].res = tbSteps[j].idx

\* The two events of the end-to-end example.
C16_Start == [type |-> "basal", deliveryType |-> "temp", deviceId |-> "d1",
              ts |-> 100, duration |-> 30]
C16_Stop == [type |-> "basal", deliveryType |-> "temp", deviceId |-> "d1",
             ts |-> 200, duration |-> 0]

\* C16 (as claimed): the two events of the example, through the joiner and
\* then idify, give two events and no error: the temp with the id of (type,
\* deliveryType, deviceId, ts=100), and a temp-stop whose tempId is that id
\* and whose id is that of (type, deliveryType, deviceId, ts=200).
C16_TwoEventsEndToEnd ==
  (/\ withIdify
   /\ Len(tbSteps) = 2
   /\ tbSteps[1].e = C16_Start
   /\ tbSteps[2].e = C16_Stop) =>
    /\ tbState # "error"
    /\ Len(tbOut) = 2
    /\ tbHeap[tbOut[1]] =
         Merge(C16_Start, [id |-> "sha1(basaltempd1100)"])
    /\ tbHeap[tbOut[2]] =
         [type |-> "basal", deviceId |-> "d1", deliveryType |-> "temp-stop",
          tempId |-> "sha1(basaltempd1100)",
          id |-> "sha1(basaltemp-stopd1200)"]

\* C20: every temp-stop the joiner emits follows a temp of non-zero duration
\* with no temp of duration 0 between them, its tempId is the id of the last
\* such temp, there are never more temp-stops than temps of non-zero
\* duration, and no temp of duration 0 is emitted as it came.
C20_StopsMatchStarts ==
  /\ \A j \in 1..Len(tbSteps) :
       LET s == tbSteps[j]
       IN  /\ ZeroTemp(s.e) => s.res # s.idx
           /\ (s.res # 0 /\ "deliveryType" \in DOMAIN s.resVal
                 /\ s.resVal["deliveryType"] = "temp-stop") =>
                \E i \in 1..(j - 1) :
                  /\ StartTemp(tbSteps[i].e)
                  /\ \A h \in (i + 1)..(j - 1) : ~TempDelivery(tbSteps[h].e)
                  /\ s.cur = tbSteps[i].idx
                  /\ ("tempId" \in DOMAIN tbHeap[s.res])
                       <=> ("id" \in DOMAIN tbHeap[s.cur])
                  /\ "tempId" \in DOMAIN tbHeap[s.res] =>
                       tbHeap[s.res]["tempId"] = tbHeap[s.cur]["id"]
  /\ Cardinality({j \in 1..Len(tbSteps) :
                    /\ tbSteps[j].res # 0
                    /\ "deliveryType" \in DOMAIN tbSteps[j].resVal
                    /\ tbSteps[j].resVal["deliveryType"] = "temp-stop"})
       <= Cardinality({j \in 1..Len(tbSteps) : StartTemp(tbSteps[j].e)})

C20_Witness ==
  /\ Len(tbSteps) = 3
  /\ StartTemp(tbSteps[1].e)
  /\ StartTemp(tbSteps[2].e)
  /\ ZeroTemp(tbSteps[3].e)
  /\ tbSteps[3].res # 0
  /\ tbSteps[3].cur = tbSteps[2].idx
  /\ withIdify
  /\ tbHeap[tbSteps[3].res]["tempId"] = "sha1(basaltempd1200)"

\* ------------------------------------------------------ passThroughStream
\* C17 (as claimed): the write-side subscription is disposed when the result
\* stream reports an error, before the error reaches the subscriber, and
\* when the subscriber disposes the result stream; after either, no input
\* element is written into the channel.
C17_WriterDisposedOnErrorOrCancel ==
  /\ ptResult \in {"error", "cancelled"} => ptWriter # "active"
  /\ ptAtError # "active"
  /\ ptLate = 0

\* ------------------------------------------------- splitMerge, termination
\* C18 (as claimed): once the upstream has completed and the stream of every
\* handler that was called has completed, whenever it did so, the merged
\* output is completed and the flow table is empty. (No step is left to the
\* routing then, so what has not happened by that state never happens.)
C18_CompletesWithEmptyTable ==
  (/\ upstream = "completed"
   /\ thrown = Null
   /\ \A k \in Keys : hout[k] \in {"none", "completed"}) =>
    /\ outState = "completed"
    /\ DOMAIN flows = {}

\* ------------------------------------------- readline, subscribed twice
\* C19 (as claimed): the buffer of the pending partial line is empty when a
\* subscription starts, and a second subscription, made after the first one
\* ended and given the same chunks and the same end, has emitted the same
\* elements as the first one when it has ended.
C19_SecondSubscriptionSame ==
  rsFirstState # "none" =>
    /\ rsStartBuf = <<>>
    /\ rlState = rsFirstState => rlOut = rsFirstOut

=========================================================================
